---- MODULE Spec2Model ----
(***************************************************************************)
(* Model of the large-file transcription pipeline of Audio-Transcriber     *)
(* (src/unnamed/part_000): chunk planning, the first split, the oversize   *)
(* repair (verifyAndResplitChunks), the worker pool of processChunks with  *)
(* its directory watcher and second split, and the response stream written *)
(* by handleLargeFile; the /transcribe route that chooses between the      *)
(* whole-file call and handleLargeFile; a second job's sub-chunk in the    *)
(* shared chunks directory.                                                *)
(*                                                                         *)
(* Sizes are counted in KiB (the source counts bytes) so that the products *)
(* of the planner fit TLC's 32-bit integers; durations are whole seconds.  *)
(* JavaScript computes the planner and the progress percentage in doubles; *)
(* the model computes the same quotients exactly.                          *)
(***************************************************************************)
EXTENDS Integers, Sequences, FiniteSets, Bags, TLC

(***************************************************************************)
(* Program constants                                                       *)
(***************************************************************************)
MB == 1024
OPENAI_WHISPER_LIMIT == 25 * MB
MIN_CHUNK_DURATION == 120
MAX_CHUNK_DURATION == 1800
MAX_CONCURRENT_CHUNKS == 3
maxRetries == 2

(***************************************************************************)
(* Bounds of the model                                                     *)
(***************************************************************************)
\* largest number that the leading digits of a renamed sub-chunk spell
MaxUuidIdx == 3
\* the count of repair passes saturates here
MaxPasses == 3
\* the planner's inputs are taken from a grid with this many sizes
MaxPlanSizes == 8

Min(a, b) == IF a < b THEN a ELSE b
Max(a, b) == IF a > b THEN a ELSE b
CeilDiv(a, b) == (a + b - 1) \div b

VARIABLES
    fileSize,            \* req.file.size, KiB
    duration,            \* metadata.format.duration, seconds
    srcChunks,           \* what ffmpeg cuts the source into at the planned duration
    segmentDuration,     \* optimalSegmentDuration; 0 until planned
    pc,                  \* position of handleLargeFile / splitAndProcessAudioFile
    files,               \* the session's files in chunksDir: name -> [size, dur]
    oversizedFiles,      \* verifyAndResplitChunks: oversized files still to re-split
    passes,              \* number of scans verifyAndResplitChunks has made
    transcriptionResults,
    totalChunks,
    processedChunks,
    chunksBeingProcessed,
    isSplittingComplete,
    chunkQueue,
    inflight,            \* processChunk calls awaiting the API: bag of [path, index, retryCount]
    enqueued,            \* every entry ever pushed on chunkQueue, in push order
    watcher,             \* the chunkWatcher interval is set
    split2,              \* second ffmpeg run: state and next chunk to write
    resLast,             \* last event written to the response
    resEnded,            \* res.end was called
    sourceExists,        \* the uploaded file is still on disk
    probeCalls,          \* number of ffmpeg.ffprobe calls made
    wholeCalls,          \* number of transcription calls made on the upload itself
    jsonResponses        \* number of res.json calls of the /transcribe route

vars == <<fileSize, duration, srcChunks, segmentDuration, pc, files,
          oversizedFiles, passes, transcriptionResults, totalChunks,
          processedChunks, chunksBeingProcessed, isSplittingComplete,
          chunkQueue, inflight, enqueued, watcher, split2, resLast,
          resEnded, sourceExists, probeCalls, wholeCalls, jsonResponses>>

routeVars == <<probeCalls, wholeCalls, jsonResponses>>

jobVars == <<files, oversizedFiles, passes, transcriptionResults, totalChunks,
             processedChunks, chunksBeingProcessed, isSplittingComplete,
             chunkQueue, inflight, enqueued, watcher, split2, resLast,
             resEnded, sourceExists, srcChunks, probeCalls, wholeCalls,
             jsonResponses>>

(***************************************************************************)
(* ChunkPlanner                                                            *)
(***************************************************************************)
\* the planner without the upper end of the clamp
calculateOptimalChunkDuration_NoMax(size, dur) ==
    Max(MIN_CHUNK_DURATION, (24 * MB * dur) \div size)

\* the planner with the 20MB target that the README names
calculateOptimalChunkDuration_20MB(size, dur) ==
    Max(MIN_CHUNK_DURATION, Min(1800, (20 * MB * dur) \div size))

\* the planner with the 20 minutes that the README names as the maximum
calculateOptimalChunkDuration_Max1200(size, dur) ==
    Max(MIN_CHUNK_DURATION, Min(1200, (24 * MB * dur) \div size))

\* Math.floor(targetChunkSize / (fileSize / fileDuration)), then the clamp.
\* A zero duration makes the bitrate infinite and the quotient 0.
calculateOptimalChunkDuration(size, dur) ==
    LET targetChunkSize == 24 * MB
        optimalDuration == (targetChunkSize * dur) \div size
    IN  Max(MIN_CHUNK_DURATION, Min(1800, optimalDuration))

(***************************************************************************)
(* Files of the session in chunksDir                                       *)
(*                                                                         *)
(* A name is a record: kind "seq" is '<session>-chunk-%03d' with n the     *)
(* ordinal; kind "uuid" is '<session>-chunk-<8 hex characters>', where n   *)
(* is the number its leading decimal digits spell (-1 when the first       *)
(* character is a letter) and tag tells names with equal n apart; sub >= 0 *)
(* marks '<name>-sub-%03d', a piece of a re-split that is not yet renamed. *)
(* Kind "other" is a file of another job's session in the same directory.  *)
(***************************************************************************)
SeqName(k) == [kind |-> "seq", n |-> k, tag |-> 0, sub |-> -1]
SubName(parent, j) == [parent EXCEPT !.sub = j]
UuidName(i, t) == [kind |-> "uuid", n |-> i, tag |-> t, sub |-> -1]

\* '<other session>-chunk-000-sub-000': a piece that the re-split of another
\* job has written and that job has not renamed yet
OtherSub == [kind |-> "other", n |-> 0, tag |-> 0, sub |-> 0]

\* parseInt(name.match(/chunk-(\d+)/)[1]); -1 stands for a null match
IndexOf(name) == name.n

\* file => file.startsWith(`${sessionId}-chunk-`) && file.endsWith(outputExt)
SessionChunks(fs) == {f \in DOMAIN fs : f.kind # "other"}

\* fs.readdirSync(chunksDir).filter(f => f.includes('-sub-'))
SubChunks(fs) == {f \in DOMAIN fs : f.sub >= 0}

\* the filter with >= for >
OversizedIn_Ge(fs) == {f \in SessionChunks(fs) : fs[f].size >= OPENAI_WHISPER_LIMIT}

\* the filter against a limit of 30MB
OversizedIn_30MB(fs) == {f \in SessionChunks(fs) : fs[f].size > 30 * MB}

\* files.filter(file => fs.statSync(...).size > OPENAI_WHISPER_LIMIT)
OversizedIn(fs) == {f \in SessionChunks(fs) : fs[f].size > OPENAI_WHISPER_LIMIT}

Restrict(f, S) == [x \in S |-> f[x]]
Extend(f, g) == [x \in DOMAIN f \cup DOMAIN g |-> IF x \in DOMAIN g THEN g[x] ELSE f[x]]

(***************************************************************************)
(* The external split (ffmpeg -f segment -segment_time t -c copy): a file  *)
(* of duration dur is cut into ceil(dur / t) pieces, all of duration t but *)
(* the last; the bitrate is not uniform, so the sizes of the pieces are    *)
(* any sizes that add up to the size of the file.                          *)
(***************************************************************************)
SizeChoices == {(13 * MB) \div 2, 13 * MB, 25 * MB, 26 * MB, 52 * MB}

RECURSIVE SumSeq(_)
SumSeq(q) == IF q = <<>> THEN 0 ELSE Head(q) + SumSeq(Tail(q))

Pieces(size, dur, t) ==
    LET n == Max(1, CeilDiv(dur, t))
        sizes == {q \in [1..n -> SizeChoices] : SumSeq(q) = size}
    IN  {[i \in 1..n |-> [size |-> q[i],
                          dur |-> IF i < n THEN t ELSE dur - (n - 1) * t]] : q \in sizes}

\* The uploads of the model: size (> OPENAI_WHISPER_LIMIT) and duration.
Sources == {[size |-> 38 * MB, duration |-> 240],
            [size |-> 39 * MB, duration |-> 245],
            [size |-> 65 * MB, duration |-> 200],
            [size |-> 26 * MB, duration |-> 7200]}

(***************************************************************************)
(* The response stream: the model keeps the last event written.            *)
(***************************************************************************)
Absent == "(absent)"
Event(st, pr) == [status |-> st, progress |-> pr, transcription |-> Absent, error |-> Absent]
CompleteEvent(text) == [status |-> "complete", progress |-> 100, transcription |-> text, error |-> Absent]
ErrorEvent(msg) == [status |-> "error", progress |-> 100, transcription |-> Absent, error |-> msg]

\* Math.floor(20 + (processedChunks / totalChunks) * 70)
Progress(processed, total) == 20 + (processed * 70) \div total

(***************************************************************************)
(* Transcription results                                                   *)
(***************************************************************************)
\* what the transcription service returns for the audio of a file
TextOf(name) ==
    IF name.kind = "seq" THEN "t" \o ToString(name.n)
    ELSE "u" \o ToString(name.n) \o "-" \o ToString(name.tag)

\* `[Error: Chunk ${chunkIndex+1} failed to transcribe - ${error.message}]`
Placeholder(index, msg) ==
    "[Error: Chunk " \o ToString(index + 1) \o " failed to transcribe - " \o msg \o "]"

ErrEmpty == "Chunk file is empty"
ErrTooBig == "Chunk file exceeds 25MB limit"
ErrApi == "Connection error."

\* combinedResults.join(' ')
RECURSIVE Join(_)
Join(q) ==
    IF q = <<>> THEN ""
    ELSE IF Len(q) = 1 THEN q[1]
    ELSE q[1] \o " " \o Join(Tail(q))

EmptyFn == [x \in {} |-> 0]
Split2Idle == [state |-> "idle", next |-> 0, open |-> FALSE]

\* The state every specification starts the job's bookkeeping from.
JobIdle ==
    /\ files = EmptyFn
    /\ oversizedFiles = <<>>
    /\ passes = 0
    /\ transcriptionResults = EmptyFn
    /\ totalChunks = 0
    /\ processedChunks = 0
    /\ chunksBeingProcessed = 0
    /\ isSplittingComplete = FALSE
    /\ chunkQueue = <<>>
    /\ inflight = EmptyBag
    /\ enqueued = <<>>
    /\ watcher = FALSE
    /\ split2 = Split2Idle
    /\ resLast = Event("none", 0)
    /\ resEnded = FALSE
    /\ sourceExists = TRUE
    /\ probeCalls = 0
    /\ wholeCalls = 0
    /\ jsonResponses = 0

(***************************************************************************)
(* handleLargeFile and splitAndProcessAudioFile up to the worker pool      *)
(***************************************************************************)
Init ==
    /\ \E src \in Sources :
         /\ fileSize = src.size
         /\ duration = src.duration
         /\ srcChunks \in Pieces(src.size, src.duration,
                                 calculateOptimalChunkDuration(src.size, src.duration))
    /\ segmentDuration = 0
    /\ pc = "start"
    /\ JobIdle

\* the catch of handleLargeFile: res.end of a status=error event, no cleanup
RejectJob(msg) ==
    /\ pc' = "failed"
    /\ resLast' = ErrorEvent(msg)
    /\ resEnded' = TRUE

\* handleLargeFile writes progress 5, splitAndProcessAudioFile writes 5 again
\* and starts ffprobe
Begin ==
    /\ pc = "start"
    /\ pc' = "probe"
    /\ probeCalls' = probeCalls + 1
    /\ UNCHANGED <<wholeCalls, jsonResponses>>
    /\ resLast' = Event("processing", 5)
    /\ UNCHANGED <<fileSize, duration, srcChunks, segmentDuration, files,
                   oversizedFiles, passes, transcriptionResults, totalChunks,
                   processedChunks, chunksBeingProcessed, isSplittingComplete,
                   chunkQueue, inflight, enqueued, watcher, split2, resEnded,
                   sourceExists>>

\* ffprobe callback without error: plan, write progress 10, start the split
ProbeOk ==
    /\ UNCHANGED routeVars
    /\ pc = "probe"
    /\ segmentDuration' = calculateOptimalChunkDuration(fileSize, duration)
    /\ resLast' = Event("processing", 10)
    /\ pc' = "split1"
    /\ UNCHANGED <<fileSize, duration, srcChunks, files,
                   oversizedFiles, passes, transcriptionResults, totalChunks,
                   processedChunks, chunksBeingProcessed, isSplittingComplete,
                   chunkQueue, inflight, enqueued, watcher, split2, resEnded,
                   sourceExists>>

\* the ffprobe callback going on to the split after the error
ProbeError_Ignored ==
    /\ pc = "probe"
    /\ resLast' = ErrorEvent("ffprobe failed")
    /\ resEnded' = TRUE
    /\ segmentDuration' = calculateOptimalChunkDuration(fileSize, duration)
    /\ pc' = "split1"
    /\ UNCHANGED <<fileSize, duration, srcChunks, files,
                   oversizedFiles, passes, transcriptionResults, totalChunks,
                   processedChunks, chunksBeingProcessed, isSplittingComplete,
                   chunkQueue, inflight, enqueued, watcher, split2,
                   sourceExists>>
    /\ UNCHANGED routeVars

\* ffprobe callback with err: reject(err)
ProbeError ==
    /\ UNCHANGED routeVars
    /\ pc = "probe"
    /\ RejectJob("ffprobe failed")
    /\ UNCHANGED <<fileSize, duration, srcChunks, segmentDuration, files,
                   oversizedFiles, passes, transcriptionResults, totalChunks,
                   processedChunks, chunksBeingProcessed, isSplittingComplete,
                   chunkQueue, inflight, enqueued, watcher, split2,
                   sourceExists>>

\* the first ffmpeg run writes its next segment file
Split1Write ==
    /\ UNCHANGED routeVars
    /\ pc = "split1"
    /\ Cardinality(SessionChunks(files)) < Len(srcChunks)
    /\ LET k == Cardinality(SessionChunks(files))
       IN  files' = Extend(files, [x \in {SeqName(k)} |-> srcChunks[k + 1]])
    /\ UNCHANGED <<fileSize, duration, srcChunks, segmentDuration, pc,
                   oversizedFiles, passes, transcriptionResults, totalChunks,
                   processedChunks, chunksBeingProcessed, isSplittingComplete,
                   chunkQueue, inflight, enqueued, watcher, split2, resLast,
                   resEnded, sourceExists>>

\* .on('error') of the first ffmpeg run: reject(err); what was written stays
Split1Error ==
    /\ UNCHANGED routeVars
    /\ pc = "split1"
    /\ RejectJob("ffmpeg exited with an error")
    /\ UNCHANGED <<fileSize, duration, srcChunks, segmentDuration, files,
                   oversizedFiles, passes, transcriptionResults, totalChunks,
                   processedChunks, chunksBeingProcessed, isSplittingComplete,
                   chunkQueue, inflight, enqueued, watcher, split2,
                   sourceExists>>

(***************************************************************************)
(* OversizeRepair: verifyAndResplitChunks                                  *)
(***************************************************************************)
RECURSIVE Orderings(_)
\* the orders in which a directory listing can give the names of S
Orderings(S) ==
    IF S = {} THEN {<<>>}
    ELSE UNION {{<<x>> \o rest : rest \in Orderings(S \ {x})} : x \in S}

\* The synchronous head of verifyAndResplitChunks: list the session's chunks,
\* filter the oversized ones, return if there are none; else the loop takes
\* them in the order of the listing.
VerifyScan(fs) ==
    /\ passes' = Min(passes + 1, MaxPasses)
    /\ IF OversizedIn(fs) = {}
       THEN /\ pc' = "verified"
            /\ oversizedFiles' = <<>>
       ELSE /\ pc' = "resplit"
            /\ oversizedFiles' \in Orderings(OversizedIn(fs))

\* .on('end') of the first ffmpeg run: await verifyAndResplitChunks(...)
Split1End ==
    /\ UNCHANGED routeVars
    /\ pc = "split1"
    /\ Cardinality(SessionChunks(files)) = Len(srcChunks)
    /\ VerifyScan(files)
    /\ UNCHANGED <<fileSize, duration, srcChunks, segmentDuration, files,
                   transcriptionResults, totalChunks,
                   processedChunks, chunksBeingProcessed, isSplittingComplete,
                   chunkQueue, inflight, enqueued, watcher, split2, resLast,
                   resEnded, sourceExists>>

\* Math.max(1, Math.floor(segmentDuration / 2)); options.segmentDuration is
\* the planned duration in every pass
newSegmentDuration == Max(1, segmentDuration \div 2)

\* .on('end') of the re-split of one oversized file: its pieces are on disk
\* as '<name>-sub-%03d', the oversized file is unlinked, the loop goes on
ResplitEnd ==
    /\ UNCHANGED routeVars
    /\ pc = "resplit"
    /\ LET file == Head(oversizedFiles)
       IN  \E sub \in Pieces(files[file].size, files[file].dur, newSegmentDuration) :
             files' = Extend(Restrict(files, DOMAIN files \ {file}),
                             [x \in {SubName(file, j - 1) : j \in 1..Len(sub)}
                                |-> sub[x.sub + 1]])
    /\ oversizedFiles' = Tail(oversizedFiles)
    /\ pc' = IF Tail(oversizedFiles) = <<>> THEN "rename" ELSE "resplit"
    /\ UNCHANGED <<fileSize, duration, srcChunks, segmentDuration, passes,
                   transcriptionResults, totalChunks,
                   processedChunks, chunksBeingProcessed, isSplittingComplete,
                   chunkQueue, inflight, enqueued, watcher, split2, resLast,
                   resEnded, sourceExists>>

\* .on('error') of a re-split: rejectSub(err) ends verifyAndResplitChunks and
\* the job; the oversized file stays, with any piece written so far
ResplitError ==
    /\ UNCHANGED routeVars
    /\ pc = "resplit"
    /\ LET file == Head(oversizedFiles)
       IN  \E sub \in Pieces(files[file].size, files[file].dur, newSegmentDuration) :
           \E m \in 0..(Len(sub) - 1) :
             files' = Extend(files, [x \in {SubName(file, j - 1) : j \in 1..m}
                                       |-> sub[x.sub + 1]])
    /\ RejectJob("ffmpeg exited with an error")
    /\ UNCHANGED <<fileSize, duration, srcChunks, segmentDuration,
                   oversizedFiles, passes, transcriptionResults, totalChunks,
                   processedChunks, chunksBeingProcessed, isSplittingComplete,
                   chunkQueue, inflight, enqueued, watcher, split2,
                   sourceExists>>

\* The numbers that the leading digits of uuidv4().substring(0, 8) spell in
\* the model: none (-1, the name starts with a letter), zero, and two large ones.
UuidNumbers == {-1, 0, MaxUuidIdx - 1, MaxUuidIdx}

\* `${sessionId}-chunk-${uuidv4().substring(0, 8)}${outputExt}`: a name that
\* is not in the directory
FreshUuidName(i, taken) ==
    UuidName(i, CHOOSE t \in 0..Cardinality(taken) : UuidName(i, t) \notin taken)

RECURSIVE RenameAll(_, _)
\* the set of directories that renaming every sub-chunk of todo can lead to
RenameAll(fs, todo) ==
    IF todo = {} THEN {fs}
    ELSE LET sc == CHOOSE x \in todo : TRUE
         IN  UNION {RenameAll(Extend(Restrict(fs, DOMAIN fs \ {sc}),
                                     [x \in {FreshUuidName(i, DOMAIN fs)} |-> fs[sc]]),
                              todo \ {sc}) : i \in UuidNumbers}

\* after the loop: rename the sub-chunks into the session's namespace and
\* call verifyAndResplitChunks(options) again
RenameSubChunks ==
    /\ UNCHANGED routeVars
    /\ pc = "rename"
    /\ \E fs \in RenameAll(files, SubChunks(files)) :
         /\ files' = fs
         /\ VerifyScan(fs)
    /\ UNCHANGED <<fileSize, duration, srcChunks, segmentDuration,
                   transcriptionResults, totalChunks,
                   processedChunks, chunksBeingProcessed, isSplittingComplete,
                   chunkQueue, inflight, enqueued, watcher, split2, resLast,
                   resEnded, sourceExists>>

(***************************************************************************)
(* TranscriptionWorkerPool: processChunks                                  *)
(*                                                                         *)
(* The closures of processChunks run to their next await without being     *)
(* interrupted and call each other, so they are operators on a record p of *)
(* the variables they read and write; settled tells that the promise of    *)
(* splitAndProcessAudioFile is resolved or rejected, value is what it was  *)
(* resolved with.                                                          *)
(***************************************************************************)
Pool ==
    [transcriptionResults |-> transcriptionResults,
     totalChunks |-> totalChunks,
     processedChunks |-> processedChunks,
     chunksBeingProcessed |-> chunksBeingProcessed,
     isSplittingComplete |-> isSplittingComplete,
     chunkQueue |-> chunkQueue,
     inflight |-> inflight,
     resLast |-> resLast,
     settled |-> pc \in {"complete", "failed"},
     value |-> Absent]

\* res.write(JSON.stringify({status: 'processing', ..., progress: ...}))
WriteProgress(p) ==
    [p EXCEPT !.resLast = Event("processing", Progress(p.processedChunks, p.totalChunks))]

\* transcriptionResults[chunkIndex] = text
Store(results, index, text) == Extend(results, [x \in {index} |-> text])

RECURSIVE CombineFrom(_, _, _)
\* for (let i = 0; i < totalChunks; i++) if (transcriptionResults[i]) push
CombineFrom(results, i, total) ==
    IF i >= total THEN <<>>
    ELSE (IF i \in DOMAIN results /\ results[i] # "" THEN <<results[i]>> ELSE <<>>)
         \o CombineFrom(results, i + 1, total)

\* checkCompletion: resolve({..., combinedTranscription}); resolving a settled
\* promise does nothing
checkCompletion(p) ==
    IF p.isSplittingComplete /\ p.processedChunks = p.totalChunks /\ ~p.settled
    THEN [p EXCEPT !.settled = TRUE,
                   !.value = Join(CombineFrom(p.transcriptionResults, 0, p.totalChunks))]
    ELSE p

RECURSIVE checkForMoreChunks(_, _), processChunk(_, _, _)

\* the finally block of processChunk
FinallyOf(p, fs) ==
    checkCompletion(
        checkForMoreChunks([p EXCEPT !.chunksBeingProcessed = @ - 1], fs))

\* the catch block of processChunk: record the placeholder, count the chunk
CatchOf(p, fs, chunk, msg) ==
    FinallyOf(
        WriteProgress(
            [p EXCEPT !.transcriptionResults = Store(@, chunk.index, Placeholder(chunk.index, msg)),
                      !.processedChunks = @ + 1]), fs)

\* processChunk without the check against the 25MB limit
processChunk_NoLimitCheck(p, fs, chunk) ==
    LET p1 == WriteProgress([p EXCEPT !.chunksBeingProcessed = @ + 1])
    IN  IF chunk.path \notin DOMAIN fs
        THEN CatchOf(p1, fs, chunk, "ENOENT: no such file or directory")
        ELSE IF fs[chunk.path].size = 0
        THEN CatchOf(p1, fs, chunk, ErrEmpty)
        ELSE [p1 EXCEPT !.inflight =
                  @ (+) SetToBag({[path |-> chunk.path, index |-> chunk.index, retryCount |-> 0]})]

\* processChunk without the check for an empty file
processChunk_NoEmptyCheck(p, fs, chunk) ==
    LET p1 == WriteProgress([p EXCEPT !.chunksBeingProcessed = @ + 1])
    IN  IF chunk.path \notin DOMAIN fs
        THEN CatchOf(p1, fs, chunk, "ENOENT: no such file or directory")
        ELSE IF fs[chunk.path].size > 25 * 1024
        THEN CatchOf(p1, fs, chunk, ErrTooBig)
        ELSE [p1 EXCEPT !.inflight =
                  @ (+) SetToBag({[path |-> chunk.path, index |-> chunk.index, retryCount |-> 0]})]

\* processChunk up to its first await: count the call in, write progress,
\* validate the file; a file that passes is sent to the API (retryCount 0)
processChunk(p, fs, chunk) ==
    LET p1 == WriteProgress([p EXCEPT !.chunksBeingProcessed = @ + 1])
    IN  IF chunk.path \notin DOMAIN fs
        THEN CatchOf(p1, fs, chunk, "ENOENT: no such file or directory")
        ELSE IF fs[chunk.path].size = 0
        THEN CatchOf(p1, fs, chunk, ErrEmpty)
        ELSE IF fs[chunk.path].size > 25 * 1024
        THEN CatchOf(p1, fs, chunk, ErrTooBig)
        ELSE [p1 EXCEPT !.inflight =
                  @ (+) SetToBag({[path |-> chunk.path, index |-> chunk.index, retryCount |-> 0]})]

\* the dispatch loop with <= for <
checkForMoreChunks_Le(p, fs) ==
    IF p.chunkQueue # <<>> /\ p.chunksBeingProcessed <= MAX_CONCURRENT_CHUNKS
    THEN checkForMoreChunks(
             processChunk([p EXCEPT !.chunkQueue = Tail(@)], fs, Head(p.chunkQueue)), fs)
    ELSE p

\* while (chunkQueue.length > 0 && chunksBeingProcessed < CONCURRENT_CHUNKS)
checkForMoreChunks(p, fs) ==
    IF p.chunkQueue # <<>> /\ p.chunksBeingProcessed < MAX_CONCURRENT_CHUNKS
    THEN checkForMoreChunks(
             processChunk([p EXCEPT !.chunkQueue = Tail(@)], fs, Head(p.chunkQueue)), fs)
    ELSE p

\* Object.keys(transcriptionResults).map(idx => `${sessionId}-chunk-${padStart(idx, 3)}`)
ChunkPaths(results) == {SeqName(i) : i \in DOMAIN results}

\* The variables after the closures have run.  When they resolved the promise,
\* handleLargeFile goes on: progress 95, cleanupFiles(filePath, chunks),
\* res.end of the status=complete event.
SetPool(p, fs) ==
    /\ transcriptionResults' = p.transcriptionResults
    /\ totalChunks' = p.totalChunks
    /\ processedChunks' = p.processedChunks
    /\ chunksBeingProcessed' = p.chunksBeingProcessed
    /\ isSplittingComplete' = p.isSplittingComplete
    /\ chunkQueue' = p.chunkQueue
    /\ inflight' = p.inflight
    /\ IF p.settled /\ pc = "processing"
       THEN /\ pc' = "complete"
            /\ resLast' = CompleteEvent(p.value)
            /\ resEnded' = TRUE
            /\ sourceExists' = FALSE
            /\ files' = Restrict(fs, DOMAIN fs \ ChunkPaths(p.transcriptionResults))
       ELSE /\ pc' = pc
            /\ resLast' = p.resLast
            /\ resEnded' = resEnded
            /\ sourceExists' = sourceExists
            /\ files' = fs

\* after await verifyAndResplitChunks: write progress 20, processChunks():
\* set the chunkWatcher interval and start ffmpeg on the source again
StartProcessing ==
    /\ UNCHANGED routeVars
    /\ pc = "verified"
    /\ pc' = "processing"
    /\ resLast' = Event("processing", 20)
    /\ watcher' = TRUE
    /\ split2' = [state |-> "running", next |-> 0, open |-> FALSE]
    /\ UNCHANGED <<fileSize, duration, srcChunks, segmentDuration, files,
                   oversizedFiles, passes, transcriptionResults, totalChunks,
                   processedChunks, chunksBeingProcessed, isSplittingComplete,
                   chunkQueue, inflight, enqueued, resEnded, sourceExists>>

RECURSIVE SortedListings(_)
\* readdirSync(...).filter(...).sort((a, b) => numA - numB): the names in
\* ascending order of their number; names with equal numbers keep the order
\* of the directory listing, which is any order
SortedListings(S) ==
    IF S = {} THEN {<<>>}
    ELSE LET m == CHOOSE i \in {IndexOf(x) : x \in S} : \A x \in S : i <= IndexOf(x)
         IN  UNION {{<<g>> \o rest : rest \in SortedListings(S \ {g})}
                    : g \in {x \in S : IndexOf(x) = m}}

\* a name without digits after 'chunk-' makes match() return null and the
\* callback throw a TypeError, in the comparator as soon as there are two
\* names, else when the index of a new chunk is parsed
WatcherThrows ==
    /\ \E x \in SessionChunks(files) : IndexOf(x) = -1
    /\ \/ Cardinality(SessionChunks(files)) >= 2
       \/ Cardinality(SessionChunks(files)) > totalChunks

\* one run of the chunkWatcher interval callback
WatcherTick ==
    /\ UNCHANGED routeVars
    /\ watcher
    /\ pc = "processing"
    /\ IF isSplittingComplete
       THEN /\ watcher' = FALSE
            /\ UNCHANGED <<pc, files, transcriptionResults, totalChunks,
                           processedChunks, chunksBeingProcessed, isSplittingComplete,
                           chunkQueue, inflight, enqueued, resLast, resEnded,
                           sourceExists>>
       ELSE IF WatcherThrows
       THEN \* uncaught exception in a timer callback: the process exits
            /\ pc' = "crashed"
            /\ watcher' = FALSE
            /\ UNCHANGED <<files, transcriptionResults, totalChunks,
                           processedChunks, chunksBeingProcessed, isSplittingComplete,
                           chunkQueue, inflight, enqueued, resLast, resEnded,
                           sourceExists>>
       ELSE \E currentChunks \in SortedListings(SessionChunks(files)) :
              /\ Len(currentChunks) > totalChunks
              /\ LET new == [i \in 1..(Len(currentChunks) - totalChunks) |->
                               [path |-> currentChunks[totalChunks + i],
                                index |-> IndexOf(currentChunks[totalChunks + i])]]
                     p == [Pool EXCEPT !.chunkQueue = @ \o new,
                                       !.totalChunks = Len(currentChunks)]
                 IN  /\ enqueued' = enqueued \o new
                     /\ SetPool(checkForMoreChunks(p, files), files)
              /\ watcher' = watcher
    /\ UNCHANGED <<fileSize, duration, srcChunks, segmentDuration,
                   oversizedFiles, passes, split2>>

\* the second ffmpeg run opens its next segment file, truncating a file of
\* that name
Split2Open ==
    /\ UNCHANGED routeVars
    /\ split2.state = "running"
    /\ pc = "processing"
    /\ ~split2.open
    /\ split2.next < Len(srcChunks)
    /\ files' = Extend(files, [x \in {SeqName(split2.next)} |->
                                 [size |-> 0, dur |-> srcChunks[split2.next + 1].dur]])
    /\ split2' = [split2 EXCEPT !.open = TRUE]
    /\ UNCHANGED <<fileSize, duration, srcChunks, segmentDuration, pc,
                   oversizedFiles, passes, transcriptionResults, totalChunks,
                   processedChunks, chunksBeingProcessed, isSplittingComplete,
                   chunkQueue, inflight, enqueued, watcher, resLast,
                   resEnded, sourceExists>>

\* the second ffmpeg run has written the segment file and closes it
Split2Close ==
    /\ UNCHANGED routeVars
    /\ split2.state = "running"
    /\ pc = "processing"
    /\ split2.open
    /\ files' = Extend(files, [x \in {SeqName(split2.next)} |-> srcChunks[split2.next + 1]])
    /\ split2' = [split2 EXCEPT !.open = FALSE, !.next = @ + 1]
    /\ UNCHANGED <<fileSize, duration, srcChunks, segmentDuration, pc,
                   oversizedFiles, passes, transcriptionResults, totalChunks,
                   processedChunks, chunksBeingProcessed, isSplittingComplete,
                   chunkQueue, inflight, enqueued, watcher, resLast,
                   resEnded, sourceExists>>

\* .on('end') of the second run: isSplittingComplete = true, clearInterval,
\* checkCompletion
Split2End ==
    /\ UNCHANGED routeVars
    /\ split2.state = "running"
    /\ pc = "processing"
    /\ ~split2.open
    /\ split2.next = Len(srcChunks)
    /\ split2' = [split2 EXCEPT !.state = "ended"]
    /\ watcher' = FALSE
    /\ SetPool(checkCompletion([Pool EXCEPT !.isSplittingComplete = TRUE]), files)
    /\ UNCHANGED <<fileSize, duration, srcChunks, segmentDuration,
                   oversizedFiles, passes, enqueued>>

\* .on('error') of the second run: clearInterval, reject(err)
Split2Error ==
    /\ UNCHANGED routeVars
    /\ split2.state = "running"
    /\ pc = "processing"
    /\ split2' = [split2 EXCEPT !.state = "error"]
    /\ watcher' = FALSE
    /\ RejectJob("ffmpeg exited with an error")
    /\ UNCHANGED <<fileSize, duration, srcChunks, segmentDuration, files,
                   oversizedFiles, passes, transcriptionResults, totalChunks,
                   processedChunks, chunksBeingProcessed, isSplittingComplete,
                   chunkQueue, inflight, enqueued, sourceExists>>

\* openai.audio.transcriptions.create of a chunk in flight returns its text:
\* store it by index, count the chunk, write progress, finally
ApiSuccess ==
    /\ UNCHANGED routeVars
    /\ pc \in {"processing", "failed"}
    /\ \E w \in BagToSet(inflight) :
         LET p == [Pool EXCEPT !.inflight = @ (-) SetToBag({w}),
                               !.transcriptionResults = Store(@, w.index, TextOf(w.path)),
                               !.processedChunks = @ + 1]
         IN  SetPool(FinallyOf(WriteProgress(p), files), files)
    /\ UNCHANGED <<fileSize, duration, srcChunks, segmentDuration,
                   oversizedFiles, passes, enqueued, watcher, split2>>

\* the call throws: retryCount++, and either wait and call again or, past
\* maxRetries, rethrow into the catch block
ApiFailure ==
    /\ UNCHANGED routeVars
    /\ pc \in {"processing", "failed"}
    /\ \E w \in BagToSet(inflight) :
         LET rest == [Pool EXCEPT !.inflight = @ (-) SetToBag({w})]
         IN  IF w.retryCount + 1 > maxRetries
             THEN SetPool(CatchOf(rest, files, [path |-> w.path, index |-> w.index], ErrApi),
                          files)
             ELSE SetPool([rest EXCEPT !.inflight =
                               @ (+) SetToBag({[w EXCEPT !.retryCount = @ + 1]})], files)
    /\ UNCHANGED <<fileSize, duration, srcChunks, segmentDuration,
                   oversizedFiles, passes, enqueued, watcher, split2>>

(***************************************************************************)
(* Specification of the planner alone: calculateOptimalChunkDuration on a  *)
(* grid of file sizes and durations.                                       *)
(***************************************************************************)
PlanSizes == {k * 15000 : k \in 1..MaxPlanSizes} \cup {26 * MB, 300 * MB}
PlanDurations == {1, 60, 119, 120, 240, 600, 1799, 1800, 3600, 7200, 36000}

InitPlan ==
    /\ fileSize \in PlanSizes
    /\ duration \in PlanDurations
    /\ srcChunks = <<>>
    /\ segmentDuration = 0
    /\ pc = "plan"
    /\ JobIdle

Plan ==
    /\ pc = "plan"
    /\ segmentDuration' = calculateOptimalChunkDuration(fileSize, duration)
    /\ pc' = "planned"
    /\ UNCHANGED <<fileSize, duration>>
    /\ UNCHANGED jobVars

NextPlan == Plan

SpecPlan == InitPlan /\ [][NextPlan]_vars

(***************************************************************************)
(* The /transcribe route: an upload above the limit of the transcription   *)
(* service is handed to handleLargeFile, any other upload is sent to the   *)
(* service as it is and answered with one JSON document.                   *)
(***************************************************************************)
\* the test of the route with >= for >
ExceedsLimit_Ge(size) == size >= OPENAI_WHISPER_LIMIT

\* if (req.file.size > OPENAI_WHISPER_LIMIT)
ExceedsLimit(size) == size > OPENAI_WHISPER_LIMIT

RouteSizes == {1, 13 * MB, 25 * MB - 1, 25 * MB, 25 * MB + 1, 26 * MB, 38 * MB, 300 * MB}
RouteDurations == {60, 240, 1800, 7200}

InitRoute ==
    /\ fileSize \in RouteSizes
    /\ duration \in RouteDurations
    /\ srcChunks = <<>>
    /\ segmentDuration = 0
    /\ pc = "route"
    /\ JobIdle

\* app.post('/transcribe') up to its first await: return handleLargeFile(req,
\* res) for a file above the limit, else openai.audio.transcriptions.create
\* on the uploaded file
Transcribe ==
    /\ pc = "route"
    /\ IF ExceedsLimit(fileSize)
       THEN /\ pc' = "start"
            /\ wholeCalls' = wholeCalls
       ELSE /\ pc' = "small"
            /\ wholeCalls' = wholeCalls + 1
    /\ UNCHANGED <<fileSize, duration, srcChunks, segmentDuration, files,
                   oversizedFiles, passes, transcriptionResults, totalChunks,
                   processedChunks, chunksBeingProcessed, isSplittingComplete,
                   chunkQueue, inflight, enqueued, watcher, split2, resLast,
                   resEnded, sourceExists, probeCalls, jsonResponses>>

\* the call returns: saveTranscription, fs.unlinkSync(filePath),
\* res.json({success: true, transcription, savedAs})
SmallSuccess ==
    /\ pc = "small"
    /\ pc' = "json200"
    /\ jsonResponses' = jsonResponses + 1
    /\ resEnded' = TRUE
    /\ sourceExists' = FALSE
    /\ UNCHANGED <<fileSize, duration, srcChunks, segmentDuration, files,
                   oversizedFiles, passes, transcriptionResults, totalChunks,
                   processedChunks, chunksBeingProcessed, isSplittingComplete,
                   chunkQueue, inflight, enqueued, watcher, split2, resLast,
                   probeCalls, wholeCalls>>

\* the call throws: res.status(500).json({success: false, error}); the
\* uploaded file stays
SmallFailure ==
    /\ pc = "small"
    /\ pc' = "json500"
    /\ jsonResponses' = jsonResponses + 1
    /\ resEnded' = TRUE
    /\ UNCHANGED <<fileSize, duration, srcChunks, segmentDuration, files,
                   oversizedFiles, passes, transcriptionResults, totalChunks,
                   processedChunks, chunksBeingProcessed, isSplittingComplete,
                   chunkQueue, inflight, enqueued, watcher, split2, resLast,
                   sourceExists, probeCalls, wholeCalls>>

NextRoute ==
    \/ Transcribe \/ SmallSuccess \/ SmallFailure
    \/ Begin \/ ProbeOk \/ ProbeError

SpecRoute == InitRoute /\ [][NextRoute]_vars

(***************************************************************************)
(* The probe step alone: handleLargeFile up to the start of the first      *)
(* split, on uploads whose metadata report any duration, zero included     *)
(* (metadata.format.duration is used as ffprobe reports it).               *)
(***************************************************************************)
ProbeSizes == {26 * MB, 38 * MB, 39 * MB, 65 * MB, 300 * MB}
ProbeDurations == {0, 1, 60, 240, 1800, 7200}

InitProbe ==
    /\ fileSize \in ProbeSizes
    /\ duration \in ProbeDurations
    /\ srcChunks = <<>>
    /\ segmentDuration = 0
    /\ pc = "start"
    /\ JobIdle

NextProbe == Begin \/ ProbeOk \/ ProbeError

SpecProbe == InitProbe /\ [][NextProbe]_vars

Next ==
    \/ Begin \/ ProbeOk \/ ProbeError
    \/ Split1Write \/ Split1Error \/ Split1End
    \/ ResplitEnd \/ ResplitError \/ RenameSubChunks
    \/ StartProcessing \/ WatcherTick
    \/ Split2Open \/ Split2Close \/ Split2End \/ Split2Error
    \/ ApiSuccess \/ ApiFailure

Spec == Init /\ [][Next]_vars

(***************************************************************************)
(* Two jobs in the same chunks directory.  The job of the model runs next  *)
(* to another job that is in its own oversize repair: the re-split of the  *)
(* other job writes a sub-chunk under the other session's prefix.          *)
(***************************************************************************)
\* .on('end') of a re-split of the other job: its piece is on disk.  The
\* other job has one oversized file; its re-split ends before the first pass
\* of this job's repair is over.
OtherResplitEnd ==
    /\ pc \in {"split1", "resplit"}
    /\ passes <= 1
    /\ OtherSub \notin DOMAIN files
    /\ files' = Extend(files, [x \in {OtherSub} |-> [size |-> 13 * MB, dur |-> 60]])
    /\ UNCHANGED <<fileSize, duration, srcChunks, segmentDuration, pc,
                   oversizedFiles, passes, transcriptionResults, totalChunks,
                   processedChunks, chunksBeingProcessed, isSplittingComplete,
                   chunkQueue, inflight, enqueued, watcher, split2, resLast,
                   resEnded, sourceExists>>
    /\ UNCHANGED routeVars

\* The uploads of this specification: one whose chunks are compliant and one
\* whose chunks the repair re-splits.
TwoJobSources == {src \in Sources : src.size \in {38 * MB, 65 * MB}}

InitTwoJobs ==
    /\ \E src \in TwoJobSources :
         /\ fileSize = src.size
         /\ duration = src.duration
         /\ srcChunks \in Pieces(src.size, src.duration,
                                 calculateOptimalChunkDuration(src.size, src.duration))
    /\ segmentDuration = 0
    /\ pc = "start"
    /\ JobIdle

NextTwoJobs ==
    \/ Begin \/ ProbeOk \/ ProbeError
    \/ Split1Write \/ Split1Error \/ Split1End
    \/ ResplitEnd \/ ResplitError \/ RenameSubChunks
    \/ StartProcessing \/ WatcherTick
    \/ Split2Open \/ Split2Close \/ Split2End \/ Split2Error
    \/ ApiSuccess \/ ApiFailure
    \/ OtherResplitEnd

SpecTwoJobs == InitTwoJobs /\ [][NextTwoJobs]_vars

(***************************************************************************)
(* The whole job under fairness: ffprobe, ffmpeg and the transcription     *)
(* service return, with a result or with an error, the watcher's timer     *)
(* fires, and the handler of each runs.                                    *)
(***************************************************************************)
SpecLive == Init /\ [][Next]_vars /\ WF_vars(Next)

(***************************************************************************)
(* The job up to the end of the oversize repair.  Nothing else of the job  *)
(* runs in this phase; ffprobe and ffmpeg return, with the end or with an  *)
(* error, and the handler of what they return runs.                        *)
(***************************************************************************)
NextRepair ==
    \/ Begin \/ ProbeOk \/ ProbeError
    \/ Split1Write \/ Split1Error \/ Split1End
    \/ ResplitEnd \/ ResplitError \/ RenameSubChunks

SpecRepair == Init /\ [][NextRepair]_vars /\ WF_vars(NextRepair)

(***************************************************************************)
(* Properties                                                              *)
(***************************************************************************)
\* the segment files that the watcher has discovered (pushed on the queue)
Discovered == {enqueued[i].path : i \in 1..Len(enqueued)}

\* every discovered segment has the text of its audio recorded under its index
AllTranscribed ==
    \A x \in Discovered :
        /\ IndexOf(x) \in DOMAIN transcriptionResults
        /\ transcriptionResults[IndexOf(x)] = TextOf(x)

\* C1: when the job completes and every discovered segment was transcribed
\* successfully, the final transcript is the texts of the discovered segments
\* joined by single spaces in ascending order of segment index.
C1_TranscriptInIndexOrder ==
    (pc = "complete" /\ AllTranscribed)
        => \E order \in SortedListings(Discovered) :
              resLast.transcription = Join([i \in 1..Len(order) |-> TextOf(order[i])])

\* the entry of the result mapping that belongs to a discovered segment
OwnResult(x) ==
    /\ IndexOf(x) \in DOMAIN transcriptionResults
    /\ transcriptionResults[IndexOf(x)] \in {TextOf(x), Placeholder(IndexOf(x), ErrApi)}

\* C2: when the transcription call of a segment failed on every attempt (no
\* split failed, no two segments share an index), the job ends with
\* status=complete, and the final
\* transcript holds the placeholder of that segment and the texts of the other
\* segments in ascending order of segment index.
C2_PlaceholderInPlace ==
    (/\ resEnded
     /\ split2.state # "error"
     /\ \A x, y \in Discovered : IndexOf(x) = IndexOf(y) => x = y
     /\ \A x \in Discovered : OwnResult(x)
     /\ \E x \in Discovered :
           transcriptionResults[IndexOf(x)] = Placeholder(IndexOf(x), ErrApi))
        => /\ resLast.status = "complete"
           /\ \E order \in SortedListings(Discovered) :
                 resLast.transcription =
                     Join([i \in 1..Len(order) |-> transcriptionResults[IndexOf(order[i])]])

\* C3: as long as the stream is open, the progress percentage of an event
\* written to it is never below the percentage of the event written before.
C3_ProgressNonDecreasing ==
    [][~resEnded => resLast'.progress >= resLast.progress]_vars

\* C4: the terminal event (status=complete or status=error) is the last thing
\* written to the stream: once res.end was called nothing is written.
C4_NothingAfterTerminal == [][resEnded => resLast' = resLast]_vars

\* C5: at most maxConcurrent = 3 transcription calls are in flight.
C5_BoundedConcurrency ==
    /\ chunksBeingProcessed <= MAX_CONCURRENT_CHUNKS
    /\ BagCardinality(inflight) <= MAX_CONCURRENT_CHUNKS

\* three calls in flight and a segment waiting in the queue
C5_Witness ==
    /\ chunksBeingProcessed = MAX_CONCURRENT_CHUNKS
    /\ BagCardinality(inflight) = MAX_CONCURRENT_CHUNKS
    /\ chunkQueue # <<>>

\* the hard limit of the transcription service, 25MB
WithinLimit(fs) == \A f \in DOMAIN fs : fs[f].size <= 25 * MB

\* a step in which the re-split of an oversized file ends
ResplitEnds == pc = "resplit" /\ oversizedFiles' = Tail(oversizedFiles)

\* C6: when verifyAndResplitChunks returns, no segment file of the session is
\* above the 25MB limit and the segments that the split produced oversized are
\* gone; a file found oversized is deleted when its re-split ends and its
\* sub-segments are there in its place.
C6_RepairLeavesNoOversize ==
    [][/\ pc' = "verified" =>
            /\ WithinLimit(files')
            /\ \A k \in 1..Len(srcChunks) :
                  srcChunks[k].size > 25 * MB => SeqName(k - 1) \notin DOMAIN files'
       /\ ResplitEnds =>
            /\ Head(oversizedFiles) \notin DOMAIN files'
            /\ SubName(Head(oversizedFiles), 0) \in DOMAIN files']_vars

\* verifyAndResplitChunks has returned after a repair pass
C6_Witness ==
    /\ pc = "verified"
    /\ passes = 2
    /\ \E k \in 1..Len(srcChunks) : srcChunks[k].size > 25 * MB

\* C7: verifyAndResplitChunks terminates: a repair that has started ends with
\* all segments compliant or with a fatal error.
C7_RepairTerminates == (pc \in {"resplit", "rename"}) ~> (pc \in {"verified", "failed"})

\* C8: verifyAndResplitChunks on segments that are all within the limit
\* returns after one scan, changes no file and starts no split.
C8_CompliantRepairIsNoOp ==
    [][(pc = "split1" /\ pc' \notin {"split1", "failed"} /\ WithinLimit(files))
          => /\ pc' = "verified"
             /\ files' = files
             /\ oversizedFiles' = <<>>
             /\ passes' = 1]_vars

\* verifyAndResplitChunks has returned from segments that were all compliant,
\* one of them exactly at the limit
C8_Witness ==
    /\ pc = "verified"
    /\ passes = 1
    /\ \E f \in DOMAIN files : files[f].size = 25 * MB

\* C9: for every file size > 0 and duration > 0 the planned duration lies in
\* [MIN_CHUNK_DURATION, MAX_CHUNK_DURATION] = [120, 1800].
C9_DurationInBounds ==
    (pc = "planned" /\ fileSize > 0 /\ duration > 0)
        => (MIN_CHUNK_DURATION <= segmentDuration /\ segmentDuration <= MAX_CHUNK_DURATION)

\* both ends of the clamp are met: a short file of high bitrate is planned at
\* the minimum, a long file of low bitrate at the maximum
C9_Witness ==
    /\ pc = "planned"
    /\ \/ segmentDuration = MIN_CHUNK_DURATION /\ duration = 60
       \/ segmentDuration = MAX_CHUNK_DURATION /\ duration = 36000

\* the planned duration d is floor(target / (size / duration)) clamped to
\* [120, 1800], with the floor stated by its two inequalities
ClampedFloor(d) ==
    /\ 120 <= d /\ d <= 1800
    /\ d > 120 => d * fileSize <= 24 * MB * duration
    /\ d < 1800 => 24 * MB * duration < (d + 1) * fileSize

\* a source of 50KB per second
Bitrate50KB == fileSize = 50 * duration

\* C10 as stated: the planned duration is the clamped floor, and a source of
\* 50KB/s with the 24MB target is planned at 480 seconds.
C10_ClampedFloor480 ==
    pc = "planned" => (ClampedFloor(segmentDuration)
                       /\ (Bitrate50KB => segmentDuration = 480))

\* C10 amended: the planned duration is the clamped floor, and a source of
\* 50KB/s with the 24MB target is planned at 491 seconds
\* (24 * 1024 * 1024 / 51200 = 491.52).
C10_ClampedFloor491 ==
    pc = "planned" => (ClampedFloor(segmentDuration)
                       /\ (Bitrate50KB => segmentDuration = 491))

\* a source of 50KB/s has been planned, and so has one that is not clamped
C10_Witness ==
    /\ pc = "planned"
    /\ Bitrate50KB
    /\ segmentDuration > 120 /\ segmentDuration < 1800

\* C11: an upload above the 25MB limit is never sent whole to the
\* transcription service: it goes to handleLargeFile (probe, split) and its
\* response is the stream of events; an upload of at most 25MB causes exactly
\* one transcription call and exactly one JSON response, and no probe or split.
C11_RouteBySize ==
    /\ fileSize > 25 * MB =>
          /\ wholeCalls = 0
          /\ jsonResponses = 0
          /\ pc \in {"route", "start", "probe", "split1", "failed"}
          /\ pc \notin {"route", "start"} =>
                (probeCalls = 1 /\ resLast.status \in {"processing", "error"})
    /\ fileSize <= 25 * MB =>
          /\ pc \in {"route", "small", "json200", "json500"}
          /\ pc # "route" => wholeCalls = 1
          /\ jsonResponses = (IF pc \in {"json200", "json500"} THEN 1 ELSE 0)
          /\ probeCalls = 0
          /\ segmentDuration = 0
          /\ files = EmptyFn
          /\ resLast.status = "none"

\* an upload just above the limit has been probed and planned, not sent
C11_Witness ==
    /\ fileSize = 25 * MB + 1
    /\ pc = "split1"
    /\ wholeCalls = 0

\* C12: when two jobs run concurrently, no step of this job renames or
\* deletes a file of the other job's session, and the discovery of this job
\* enqueues no file of the other job's session.
C12_OtherSessionUntouched ==
    [][/\ \A f \in DOMAIN files :
             f.kind = "other" => (f \in DOMAIN files' /\ files'[f] = files[f])
       /\ \A i \in 1..Len(enqueued') : enqueued'[i].path.kind # "other"]_vars

\* C13: when the job ends with status=complete (every segment file of the
\* session having been discovered), the source file and every segment file of
\* the session are deleted (deletions succeed), the segments that the repair
\* renamed included: no segment file of the session remains.
C13_CleanupOnComplete ==
    [][(/\ pc = "processing"
        /\ pc' = "complete"
        /\ SessionChunks(files) \subseteq {enqueued'[i].path : i \in 1..Len(enqueued')})
          => (~sourceExists' /\ SessionChunks(files') = {})]_vars

\* C14: when the job ends with a fatal error (probe, split or repair), the
\* status=error event carries no transcript, and by the time it is written
\* the source file and every segment file of the session are deleted.
C14_CleanupOnError ==
    [][(pc # "failed" /\ pc' = "failed")
          => /\ resLast'.status = "error"
             /\ resLast'.transcription = Absent
             /\ ~sourceExists'
             /\ SessionChunks(files') = {}]_vars

\* a transcription call of worker w starts in this step
CallStarts(w) == CopiesIn(w, inflight') > CopiesIn(w, inflight)

\* a transcription call of worker w ends in this step
CallEnds(w) == CopiesIn(w, inflight') < CopiesIn(w, inflight)

\* the placeholder of a failed call is stored under index i in this step
PlaceholderStored(i) ==
    /\ i \in DOMAIN transcriptionResults'
    /\ transcriptionResults'[i] = Placeholder(i, ErrApi)
    /\ (i \notin DOMAIN transcriptionResults
          \/ transcriptionResults[i] # transcriptionResults'[i])

\* C15: the transcription call of a segment is made at most 1 + maxRetries = 3
\* times, no call is started for a segment whose text is recorded, and the
\* error placeholder is recorded only when the third call in a row has failed.
C15_BoundedRetries ==
    [][/\ \A w \in BagToSet(inflight') :
             /\ w.retryCount <= maxRetries
             /\ CallStarts(w) =>
                   ~(/\ w.index \in DOMAIN transcriptionResults
                     /\ transcriptionResults[w.index] = TextOf(w.path))
       /\ \A i \in DOMAIN transcriptionResults' :
             PlaceholderStored(i) =>
                 \E w \in BagToSet(inflight) :
                     w.index = i /\ w.retryCount = maxRetries /\ CallEnds(w)]_vars

\* C16: ffprobe is called exactly once per job; when it fails the job is
\* aborted: no split is started, no transcription call is made, and the
\* stream ends with the status=error event.
C16_ProbeOnceAndFatal ==
    /\ probeCalls = (IF pc = "start" THEN 0 ELSE 1)
    /\ resLast.error = "ffprobe failed" =>
          /\ pc = "failed"
          /\ resLast.status = "error"
          /\ resEnded
          /\ segmentDuration = 0
          /\ files = EmptyFn
          /\ split2 = Split2Idle
          /\ ~watcher
          /\ inflight = EmptyBag
          /\ enqueued = <<>>
          /\ transcriptionResults = EmptyFn

\* the probe has failed and the job has ended
C16_Witness ==
    /\ resLast.error = "ffprobe failed"
    /\ pc = "failed"
    /\ probeCalls = 1

C18_NoSegmentLost ==
    [][(pc = "processing" /\ pc' = "complete")
          => \A f \in SessionChunks(files) :
                /\ \E i \in 1..Len(enqueued') : enqueued'[i].path = f
                /\ IndexOf(f) \in DOMAIN transcriptionResults']_vars

\* C19: the job completes only when the split has signalled completion and
\* the result mapping holds exactly one entry for every discovered segment:
\* the number of entries of transcriptionResults equals totalChunks.
C19_CompleteMeansAllRecorded ==
    pc = "complete" =>
        /\ isSplittingComplete
        /\ Cardinality(DOMAIN transcriptionResults) = totalChunks

\* C20: once verifyAndResplitChunks has reported all segments compliant, no
\* step creates or overwrites a segment file of the session, so the files the
\* watcher discovers are the repaired set and every dispatched segment is
\* within the limit.
C20_NoWriteAfterRepair ==
    [][(pc \in {"verified", "processing"})
          => /\ \A f \in SessionChunks(files') :
                   f \in DOMAIN files /\ files'[f] = files[f]
             /\ \A w \in BagToSet(inflight') :
                   CallStarts(w) => files[w.path].size <= 25 * MB]_vars

\* C21: no segment file is written, overwritten, renamed or deleted while a
\* transcription worker reads it: as long as the call of a dispatched segment
\* is in flight, its file stays as it is.
C21_NoWriteWhileRead ==
    [][\A w \in BagToSet(inflight) :
          w \in BagToSet(inflight')
              => (w.path \in DOMAIN files' /\ files'[w.path] = files[w.path])]_vars

\* the files that the watcher has pushed on the queue by the end of this step
EnqueuedPaths == {enqueued'[i].path : i \in 1..Len(enqueued')}

\* C22: each segment file of the session is enqueued exactly once: no file is
\* pushed on the queue twice, and a watcher tick that enqueues leaves no file
\* of its listing out.
C22_EnqueuedExactlyOnce ==
    [][/\ \A i, j \in 1..Len(enqueued') :
             enqueued'[i].path = enqueued'[j].path => i = j
       /\ enqueued' # enqueued => SessionChunks(files) \subseteq EnqueuedPaths]_vars

\* C23: every discovered segment has an integer index and no two segment files
\* of the job have the same index, the files that the repair renamed to
\* '<session>-chunk-<8 hex characters>' included: when the pool runs, the
\* pattern chunk-(\d+) matches every segment file of the session, and distinct
\* files have distinct indices.
C23_UniqueIntegerIndex ==
    pc = "processing" =>
        /\ \A x \in SessionChunks(files) : IndexOf(x) >= 0
        /\ \A x, y \in SessionChunks(files) : IndexOf(x) = IndexOf(y) => x = y

RECURSIVE InIndexOrder(_)
\* the recorded results as a sequence in ascending order of their index
InIndexOrder(results) ==
    IF DOMAIN results = {} THEN <<>>
    ELSE LET m == CHOOSE i \in DOMAIN results : \A j \in DOMAIN results : i <= j
         IN  <<results[m]>> \o InIndexOrder([j \in DOMAIN results \ {m} |-> results[j]])

\* C24: assembly takes the segment index as a sort key only: also when the
\* indices of the recorded results are not the range 0..N-1, the final
\* transcript holds every recorded result, in ascending order of index.
C24_IndexIsSortKey ==
    pc = "complete" => resLast.transcription = Join(InIndexOrder(transcriptionResults))

\* C25: after a job-level failure (probe or split error) no segment is
\* dispatched from the queue when a worker in flight finishes, and no
\* status=complete event is written from results that arrive afterwards.
C25_NoDispatchAfterFailure ==
    [][pc = "failed"
          => /\ \A w \in BagToSet(inflight') : CallStarts(w) => w.retryCount > 0
             /\ resLast'.status # "complete"]_vars

\* C26: each repair pass re-splits at half the duration of the pass before:
\* with planned duration D, the pieces that pass k writes are cut at
\* max(1, floor(D / 2^k)) seconds, so none of them is longer than that.
C26_HalvingPerPass ==
    [][ResplitEnds
          => \A f \in SubChunks(files') \ SubChunks(files) :
                files'[f].dur <= Max(1, segmentDuration \div (2 ^ passes))]_vars

\* the queue of this step: what was waiting and what the watcher pushes
QueueOfStep == chunkQueue \o SubSeq(enqueued', Len(enqueued) + 1, Len(enqueued'))

\* the chunks that the dispatch loop takes off the queue in this step
PickedUp ==
    {QueueOfStep[i] : i \in 1..(Len(QueueOfStep) - Len(chunkQueue'))}

\* chunk c is not handed to the transcription call in this step; the
\* placeholder with message msg is recorded under its index
FailsValidation(c, msg) ==
    /\ \A w \in BagToSet(inflight') :
          (CallStarts(w) /\ w.retryCount = 0) => w.path # c.path
    /\ c.index \in DOMAIN transcriptionResults'
    /\ transcriptionResults'[c.index] = Placeholder(c.index, msg)

\* C27: a segment that is above the 25MB limit when a worker picks it up is
\* not passed to the transcription call: the error is recorded as its result
\* and counted, and the job goes on.
C27_OversizeNeverSent ==
    [][/\ \A c \in PickedUp :
             (c.path \in DOMAIN files /\ files[c.path].size > 25 * MB)
                 => FailsValidation(c, ErrTooBig)
       /\ processedChunks' >= processedChunks
             + Cardinality({c \in PickedUp : c.path \in DOMAIN files
                                             /\ files[c.path].size > 25 * MB})
       /\ PickedUp # {} => pc' \in {pc, "complete"}]_vars

\* a worker has picked up a segment above the limit and recorded the error
C27_Witness ==
    \E i \in DOMAIN transcriptionResults :
        transcriptionResults[i] = Placeholder(i, ErrTooBig)

\* C28: a segment that is empty when a worker picks it up is not sent to the
\* transcription call, at no attempt: the error placeholder is recorded as its
\* result at once, the processed count goes up by one, and the job goes on.
C28_EmptyNeverSent ==
    [][/\ \A c \in PickedUp :
             (c.path \in DOMAIN files /\ files[c.path].size = 0)
                 => FailsValidation(c, ErrEmpty)
       /\ processedChunks' >= processedChunks
             + Cardinality({c \in PickedUp : c.path \in DOMAIN files
                                             /\ files[c.path].size = 0})
       /\ \A w \in BagToSet(inflight') :
             (CallStarts(w) /\ w.retryCount = 0) => files[w.path].size > 0]_vars

\* a worker has picked up an empty segment and recorded the error
C28_Witness ==
    /\ pc = "processing"
    /\ \E i \in DOMAIN transcriptionResults :
          transcriptionResults[i] = Placeholder(i, ErrEmpty)

\* C29: every large-file job eventually writes a terminal event
\* (status=complete or status=error) and ends the stream.
C29_EventuallyTerminal == <>(resEnded /\ resLast.status \in {"complete", "error"})


\* C30: a source whose probed duration is zero makes the probe step fail:
\* once the probe has answered, the job is aborted with a status=error
\* event, no segment duration has been planned and no split was started.
C30_ZeroDurationAborts ==
    (duration = 0 /\ pc \notin {"start", "probe"})
        => /\ pc = "failed"
           /\ resEnded
           /\ resLast.status = "error"
           /\ segmentDuration = 0
           /\ files = EmptyFn

====
